---- MODULE Spec2Model ----
(***************************************************************************)
(* A model of the Router orchestrator of abyssa-js (src/src/Router.js):    *)
(* the closure variables of Router(), its public operations, the popstate  *)
(* handler it installs and the settlement callbacks it gives a Transition. *)
(* The history stack of the browser and the Transition handle are the      *)
(* router's environment; they are modelled at their boundary.              *)
(***************************************************************************)
EXTENDS Integers, Sequences, FiniteSets, TLC

\* ------------------------------------------------------------------ bounds
\* The number of transitions the router creates in one run.
MaxTransitions == 3
\* The number of entries the history stack keeps (older ones are dropped).
MaxHist == 2
\* The number of transitions created in a run in which every one is followed
\* to its end.
MaxLive == 2

\* ------------------------------------------------------------------ state
VARIABLES
  states,              \* the names of the registered root states
  leafStates,          \* the names of the leaf states initStates() has routed
  initCalled,          \* init() ran initStates(): leafStates is built
  initialized,         \* the latch set at the end of init()
  emulate,             \* history.emulate of the host
  notFound,            \* initOptions.notFound is configured
  firstTransition,
  ignoreNextPopState,
  currentPathQuery,
  currentState,
  transition,          \* the pending Transition, or NoTransition
  poppedState,
  lastParams,          \* state.lastParams of every leaf
  initOnce,            \* the addOnce binding of line 494 is still attached
  hist, hpos,          \* the history stack and the index of its current entry
  selfPop,             \* a pop notification provoked by the router's own write is due
  zombies,             \* cancelled transitions whose steps have not finished
  nTransitions,        \* transitions created so far (their identities)
  outcomes,            \* per transition, the outcome events dispatched for it
  nInitialized,        \* router.initialized dispatches so far
  nCompleted,          \* transition.completed dispatches so far
  entered,             \* per state, the parameters of the last transition.completed to it
  req,                 \* how the pending transition was requested
  emitted,             \* the events the last step dispatched, in order
  writes,              \* the history writes the last step made, in order
  raised,              \* the exception the last step left with, if any
  last,                \* the operation the last step ran, and the target it resolved
  argOld, argNew,      \* the arguments of a call of paramDiff on its own
  diff, swapped,       \* its result, and the result with the arguments exchanged
  tFrom, tTo,          \* the source and target leaves given to a Transition
  tDiff, tReload,      \* the changed parameter names and the reload flag given to it
  tLog,                \* the steps it began and ended, in order
  tDone, tRunning,     \* how many steps of its chains have ended; one is running
  tCancel,             \* cancel() has been called on it
  tOutcome             \* pending, completed, failed or cancelled

\* The variables of the router, and those of the functions called on their own.
router == <<states, leafStates, initCalled, initialized, emulate, notFound,
            firstTransition, ignoreNextPopState, currentPathQuery, currentState,
            transition, poppedState, lastParams, initOnce, hist, hpos, selfPop,
            zombies, nTransitions, outcomes, nInitialized, nCompleted, entered, req, emitted,
            writes, raised, last>>
pure == <<argOld, argNew, diff, swapped>>
engine == <<tFrom, tTo, tDiff, tReload, tLog, tDone, tRunning, tCancel, tOutcome>>
vars == <<router, pure, engine>>

\* ------------------------------------------------------------------ values
\* The leaf states of the declarative state tree (they are root states), a
\* name it does not use, and the values of the path parameter of a leaf.
Leaves == {"a", "b"}
Fresh == {"c"}
Ids == {1, 2}
ParamNames == {"id"}

\* JavaScript's undefined: as a state, as the value read for a missing
\* parameter name, as a whole parameter object, as a path query.
NoState == "undefined"
Undef == 0
NoObj == -1
UndefinedParams == [n \in ParamNames |-> NoObj]
NoPath == <<>>

\* The state configured as initOptions.notFound, when one is.
NotFoundState == "notFound"

\* The literal locations: those a leaf's route matches, and one no route matches.
Routed == IF initCalled THEN leafStates ELSE states
Routes == {<<l, i>> : l \in Routed, i \in Ids}
Unmatched == <<"zz", 0>>
PathQueries == Routes \cup {Unmatched}

\* state.route.interpolate(toCrossroadsParams(state, params))
Interpolate(name, params) == <<name, params["id"]>>

\* roads.parse(pathQuery) followed by fromCrossroadsParams: the matched leaf
\* and the flat parameter mapping.
MatchedState(pq) == pq[1]
MatchedParams(pq) == [n \in ParamNames |-> pq[2]]

\* StateWithParams(state, params): the constructor is given no location;
\* the router assigns _pathQuery itself (line 66).
StateWithParams(state, params) ==
  [state |-> state, params |-> params, pathQuery |-> NoPath]

\* A variable holding undefined where a StateWithParams is expected.
UndefinedState == StateWithParams(NoState, UndefinedParams)

\* A State object passed where the listeners of the other events receive a
\* StateWithParams (transition.to, transition.from).
StateOnly(name) == StateWithParams(name, UndefinedParams)

\* ------------------------------------------------------------------ paramDiff
\* A parameter object is a function from names to values; Undef is what is
\* read for a name the object does not carry, and the function that is NoObj
\* everywhere stands for no object at all (undefined).
Absent(params) == \A n \in DOMAIN params : params[n] = NoObj

\* The names a for-in loop over the object visits with a value to compare.
Keys(params) ==
  IF Absent(params) THEN {} ELSE {n \in DOMAIN params : params[n] # Undef}

Get(params, n) ==
  IF Absent(params) \/ n \notin DOMAIN params THEN Undef ELSE params[n]

\* oldParams = oldParams || {} guards the old mapping only: newParams[name]
\* (line 188) is a TypeError as soon as the loop over oldParams has a name to
\* visit and newParams is undefined.
paramDiffThrows(oldParams, newParams) ==
  Absent(newParams) /\ Keys(oldParams) # {}

paramDiff(oldParams, newParams) ==
  {n \in Keys(oldParams) : Get(oldParams, n) # Get(newParams, n)}
    \cup {n \in Keys(newParams) : Get(oldParams, n) # Get(newParams, n)}

NoTransition ==
  [tid |-> 0, from |-> UndefinedState, to |-> UndefinedState, reload |-> FALSE]

\* state() called by the application, with no default parameters.
Direct == [via |-> "state", defaultParams |-> UndefinedParams]

Op(op, state, params) ==
  [op |-> op, state |-> state, params |-> params, call |-> Direct]

\* The target a literal location resolves to (none when no route matches it).
Target(op, pq) ==
  IF pq \in Routes THEN Op(op, MatchedState(pq), MatchedParams(pq))
  ELSE Op(op, NoState, UndefinedParams)

NoReq == [origin |-> "none", prev |-> UndefinedState, addr |-> NoPath]

\* The fields of the Transition handle the router reads.
TransitionTo(t) == t.to.state
TransitionToParams(t) == t.to.params
TransitionFrom(t) == t.from.state
\* transition.currentState: the state the new transition starts from when
\* this one is superseded.
TransitionCurrentState(t) == t.to.state

\* The address: the location of the current history entry.
Address == hist[hpos].url

Event(type, to, from, tid) == [type |-> type, to |-> to, from |-> from, tid |-> tid]

\* ------------------------------------------------------------------ history
\* history.replaceState(state, title, url): an absent url keeps the entry's url.
HistReplace(h, p, pq) ==
  [h EXCEPT ![p] = [state |-> pq, url |-> IF pq = NoPath THEN @.url ELSE pq]]

\* history.pushState(state, title, url): the entries after the current one are
\* dropped, the new entry becomes the last and the current one.
HistPush(h, p, pq) ==
  LET full == Append(SubSeq(h, 1, p), [state |-> pq, url |-> pq])
  IN IF Len(full) > MaxHist THEN Tail(full) ELSE full

Write(op, pq) == [op |-> op, url |-> pq]

\* ------------------------------------------------------------------ signals
\* The listener of line 494 attached with add instead of addOnce.
CompletedAlwaysInit(to, from, tid, once) ==
  <<Event("completed", to, from, tid),
    Event("initialized", UndefinedState, UndefinedState, 0),
    Event("ended", to, from, tid)>>

\* transition.completed: the addOnce listener of line 494 runs first, then
\* transitionEnded (line 498).
CompletedEvents(to, from, tid, once) ==
  <<Event("completed", to, from, tid)>>
    \o (IF once THEN <<Event("initialized", UndefinedState, UndefinedState, 0)>>
        ELSE <<>>)
    \o <<Event("ended", to, from, tid)>>

\* transition.failed with no transitionEnded listener.
FailedNoEnded(to, from, tid) == <<Event("failed", to, from, tid)>>

FailedEvents(to, from, tid) ==
  <<Event("failed", to, from, tid), Event("ended", to, from, tid)>>

\* A superseded transition dropped without a dispatch.
CancelledSilently(t) == <<>>

CancelledEvents(t) ==
  <<Event("cancelled", StateOnly(TransitionTo(t)), StateOnly(TransitionFrom(t)), t.tid),
    Event("ended", StateOnly(TransitionTo(t)), StateOnly(TransitionFrom(t)), t.tid)>>

Outcomes == {"completed", "failed", "cancelled"}

Count(evs, types, tid) ==
  Cardinality({i \in DOMAIN evs : evs[i].type \in types /\ evs[i].tid = tid})

\* The bookkeeping of what has been dispatched, kept from the events of the step.
Tally ==
  /\ outcomes' = [t \in DOMAIN outcomes |-> outcomes[t] + Count(emitted', Outcomes, t)]
  /\ nInitialized' = nInitialized + Count(emitted', {"initialized"}, 0)
  /\ nCompleted' =
       nCompleted + Cardinality({i \in DOMAIN emitted' : emitted'[i].type = "completed"})
  /\ entered' =
       [l \in DOMAIN entered |->
          LET done == {i \in DOMAIN emitted' :
                         emitted'[i].type = "completed" /\ emitted'[i].to.state = l}
          IN IF done = {} THEN entered[l]
             ELSE emitted'[CHOOSE i \in done : \A j \in done : j <= i].to.params]

\* The emulated history API answers every write of the router with a pop
\* notification: one is due after a step that wrote, none after another step.
Notify == selfPop' = (emulate /\ writes' # <<>>)

\* ------------------------------------------------------------------ setState
\* The request compared with the source of the pending transition.
isSameStateSettled(newState, newParams) ==
  LET state == IF transition # NoTransition THEN TransitionFrom(transition)
               ELSE currentState.state
      params == IF transition # NoTransition THEN transition.from.params
                ELSE currentState.params
  IN (newState = state) /\ (Cardinality(paramDiff(params, newParams)) = 0)

isSameState(newState, newParams) ==
  LET state == IF transition # NoTransition THEN TransitionTo(transition)
               ELSE currentState.state
      params == IF transition # NoTransition THEN TransitionToParams(transition)
                ELSE currentState.params
  IN (newState = state) /\ (Cardinality(paramDiff(params, newParams)) = 0)

\* Line 175 evaluated with newParams undefined: see paramDiffThrows.
isSameStateThrows(newParams) ==
  LET params == IF transition # NoTransition THEN TransitionToParams(transition)
                ELSE currentState.params
  IN paramDiffThrows(params, newParams)

\* No exception; the exceptions are "Error" (a throw of the router's code) and
\* "TypeError" (a property read on undefined).
NoError == "none"

\* An exception leaves the function: nothing after it is run.
Thrown(e) ==
  /\ UNCHANGED <<currentState, transition, firstTransition, ignoreNextPopState,
                 hist, zombies, nTransitions, req>>
  /\ emitted' = <<>>
  /\ writes' = <<>>
  /\ raised' = e

\* The source taken from the settled state the stale transition left.
FromStateStale(t, cur) == IF t # NoTransition THEN t.from ELSE cur

\* Lines 55-61: the source of the new transition.
FromState(t, cur) ==
  IF t # NoTransition
  THEN StateWithParams(TransitionCurrentState(t), TransitionToParams(t))
  ELSE cur

\* The current state left alone until the transition settles.
VisibleLate(toState, fromState) == fromState

\* Line 65: the value currentState() returns while the transition runs.
Visible(toState, fromState) == toState

\* Lines 53 and 66: the target of the request, with its location.
ToState(state, params, cpq) ==
  [StateWithParams(state, params) EXCEPT !.pathQuery = cpq]

\* setState(state, params, reload), called with poppedState = popped and
\* currentPathQuery = cpq already assigned by the caller, the current history
\* entry being hist[pos]; origin and addr are recorded for the request.
SetState(state, params, reload, popped, cpq, pos, origin, addr) ==
  IF ~reload /\ isSameStateThrows(params)
  THEN Thrown("TypeError")
  ELSE IF ~reload /\ isSameState(state, params)
  THEN /\ UNCHANGED <<currentState, transition, firstTransition, ignoreNextPopState,
                      hist, zombies, nTransitions, req>>
       /\ emitted' = <<>>
       /\ writes' = <<>>
       /\ raised' = NoError
  ELSE LET toState == ToState(state, params, cpq)
           fromState == FromState(transition, currentState)
           cancelling == transition # NoTransition
       IN IF popped /\ fromState = UndefinedState
          THEN \* line 71 reads a property of undefined: the TypeError leaves
               \* setState after line 66.
               /\ currentState' = Visible(toState, fromState)
               /\ UNCHANGED <<transition, firstTransition, ignoreNextPopState, hist,
                              zombies, nTransitions, req>>
               /\ emitted' = <<>>
               /\ writes' = <<>>
               /\ raised' = "TypeError"
          ELSE /\ currentState' = Visible(toState, fromState)
               /\ firstTransition' = (IF cancelling THEN FALSE ELSE firstTransition)
               /\ zombies' = (IF cancelling THEN zombies \cup {transition} ELSE zombies)
               /\ hist' = (IF popped THEN HistReplace(hist, pos, fromState.pathQuery)
                           ELSE hist)
               /\ writes' = (IF popped THEN <<Write("replace", fromState.pathQuery)>>
                             ELSE <<>>)
               /\ ignoreNextPopState' = (IF popped /\ emulate THEN TRUE
                                         ELSE ignoreNextPopState)
               /\ nTransitions' = nTransitions + 1
               /\ transition' = [tid |-> nTransitions + 1, from |-> fromState,
                                 to |-> toState, reload |-> reload]
               /\ emitted' = (IF cancelling THEN CancelledEvents(transition) ELSE <<>>)
                               \o <<Event("started", toState, fromState, nTransitions + 1)>>
               /\ req' = [origin |-> origin, prev |-> currentState, addr |-> addr]
               /\ raised' = NoError

\* notFound(state), lines 200-205: setState is given the configured state and
\* nothing else, so params and reload are undefined; with no state configured
\* the Error reaches the caller.
NotFound(popped, cpq, pos, origin, addr) ==
  IF notFound
  THEN SetState(NotFoundState, UndefinedParams, FALSE, popped, cpq, pos, origin, addr)
  ELSE Thrown("Error")

\* setStateForPathQuery(pathQuery), lines 344-350.
SetStateForPathQuery(pq, popped, pos, origin, addr) ==
  /\ currentPathQuery' = pq
  /\ IF pq \in Routes
     THEN SetState(MatchedState(pq), MatchedParams(pq), FALSE, popped, pq, pos,
                   origin, addr)
     ELSE NotFound(popped, pq, pos, origin, addr)

\* The argument of state(): a leaf name with parameters, or a literal location.
ByName == [kind : {"name"}, name : Routed, params : [ParamNames -> Ids], pq : {NoPath}]
ByPath == [kind : {"path"}, name : {NoState}, params : {UndefinedParams}, pq : PathQueries]
Requests == ByName \cup ByPath

\* init() called with no initState: urlPathQuery() is used, lines 235 and 379-386.
FromUrl == [kind |-> "url", name |-> NoState, params |-> UndefinedParams, pq |-> NoPath]

\* Lines 307-315 and 352-359: both notations end in setStateForPathQuery.
Resolve(r) == IF r.kind = "name" THEN Interpolate(r.name, r.params) ELSE r.pq

\* ------------------------------------------------------------------ settlement
\* Line 85: whether success() pushes a new history entry.
ShouldPush(popped, first, reload) == ~popped /\ ~first /\ ~reload

\* success(), lines 82-94, of the transition t (its fromState, toState and
\* reload are the closure's), with transitionCompleted.
Success(t) ==
  LET push == ShouldPush(poppedState, firstTransition, t.reload)
      h1 == IF push THEN HistPush(hist, hpos, currentPathQuery) ELSE hist
      p1 == IF push THEN Len(h1) ELSE hpos
      h2 == IF poppedState THEN HistReplace(h1, p1, currentState.pathQuery) ELSE h1
  IN /\ transition' = NoTransition
     /\ hist' = h2
     /\ hpos' = p1
     /\ writes' = (IF push THEN <<Write("push", currentPathQuery)>> ELSE <<>>)
                    \o (IF poppedState THEN <<Write("replace", currentState.pathQuery)>>
                        ELSE <<>>)
     /\ ignoreNextPopState' = (IF emulate /\ (push \/ poppedState) THEN TRUE
                               ELSE ignoreNextPopState)
     /\ firstTransition' = FALSE
     /\ lastParams' = [lastParams EXCEPT ![t.to.state] = t.to.params]
     /\ emitted' = CompletedEvents(t.to, t.from, t.tid, initOnce)
     /\ initOnce' = FALSE
     /\ req' = NoReq
     /\ UNCHANGED <<currentState>>

\* fail(error), lines 95-100, with transitionFailed; transitionError logs the
\* rethrown transition error.
Fail(t) ==
  /\ transition' = NoTransition
  /\ currentState' = t.from
  /\ emitted' = FailedEvents(t.to, t.from, t.tid)
  /\ writes' = <<>>
  /\ req' = NoReq
  /\ UNCHANGED <<hist, hpos, ignoreNextPopState, firstTransition, lastParams,
                 initOnce>>

\* A Transition that reports its outcome whether cancelled or not.
ReportsAlways(cancelled) == TRUE

\* Transition.then(completed, failed): a cancelled transition calls neither.
Reports(cancelled) == ~cancelled

\* transition.then never calls the callbacks it was given.
SettleLost(t, cancelled, ok) ==
  /\ zombies' = zombies \ {t}
  /\ emitted' = <<>>
  /\ writes' = <<>>
  /\ raised' = NoError
  /\ last' = Op(IF cancelled THEN "superseded" ELSE IF ok THEN "complete" ELSE "fail",
                t.to.state, t.to.params)
  /\ UNCHANGED <<states, leafStates, initCalled, initialized, emulate, notFound,
                 currentPathQuery, poppedState, nTransitions, transition, currentState,
                 hist, hpos, ignoreNextPopState, firstTransition, lastParams, initOnce,
                 req>>
  /\ Tally
  /\ Notify
  /\ UNCHANGED <<pure, engine>>

\* The steps of transition t have finished, successfully or not.
Settle(t, cancelled, ok) ==
  /\ zombies' = zombies \ {t}
  /\ IF Reports(cancelled)
     THEN IF ok THEN Success(t) ELSE Fail(t)
     ELSE /\ emitted' = <<>>
          /\ writes' = <<>>
          /\ UNCHANGED <<transition, currentState, hist, hpos, ignoreNextPopState,
                         firstTransition, lastParams, initOnce, req>>
  /\ last' = Op(IF cancelled THEN "superseded" ELSE IF ok THEN "complete" ELSE "fail",
                t.to.state, t.to.params)
  /\ raised' = NoError
  /\ UNCHANGED <<states, leafStates, initCalled, initialized, emulate, notFound, currentPathQuery, poppedState,
                 nTransitions>>
  /\ Tally
  /\ Notify
  /\ UNCHANGED <<pure, engine>>

\* ------------------------------------------------------------------ operations
\* state(pathQueryOrName, params), lines 307-315, called as `call` says.
StateCall(r, call) ==
  /\ poppedState' = FALSE
  /\ SetStateForPathQuery(Resolve(r), FALSE, hpos, "prog", Address)
  /\ last' = [Target("state", Resolve(r)) EXCEPT !.call = call]
  /\ UNCHANGED <<hpos, lastParams, initOnce, emulate, notFound, states>>
  /\ Tally
  /\ Notify
  /\ UNCHANGED <<pure, engine>>

State(r) == StateCall(r, Direct)

\* init(initState, initParams), lines 225-257: with no initState the location
\* of the address is used; an unmatched location throws out of init() before
\* the popstate handler is installed.
init(r) ==
  LET q == IF r = FromUrl THEN [r EXCEPT !.kind = "path", !.pq = Address] ELSE r
  IN /\ ~initCalled
     /\ initCalled' = TRUE
     /\ leafStates' = states
     /\ initialized' = (Resolve(q) \in Routes \/ notFound)
     /\ State(q)

\* router.state(...) and router.redirect(...) after init().
Navigate(r) ==
  /\ initCalled
  /\ ~selfPop
  /\ nTransitions < MaxTransitions
  /\ State(r)
  /\ UNCHANGED <<leafStates, initCalled, initialized>>

\* backTo with the default parameters whatever the state was entered with.
BackToDefault(stateName, defaultParams) == defaultParams

\* Line 330: leafStates[stateName].lastParams || defaultParams.
BackToParams(stateName, defaultParams) ==
  IF lastParams[stateName] # UndefinedParams THEN lastParams[stateName]
  ELSE defaultParams

\* backTo(stateName, defaultParams), lines 329-332, for a leaf state.
backTo(stateName, defaultParams) ==
  /\ initCalled
  /\ ~selfPop
  /\ nTransitions < MaxTransitions
  /\ stateName \in leafStates
  /\ StateCall([kind |-> "name", name |-> stateName,
                params |-> BackToParams(stateName, defaultParams), pq |-> NoPath],
               [via |-> "backTo", defaultParams |-> defaultParams])
  /\ UNCHANGED <<leafStates, initCalled, initialized>>

\* reload(), lines 340-342; with no current state it throws before setState.
Reload ==
  /\ initCalled
  /\ ~selfPop
  /\ nTransitions < MaxTransitions
  /\ currentState # UndefinedState
  /\ SetState(currentState.state, currentState.params, TRUE, poppedState,
              currentPathQuery, hpos, "reload", Address)
  /\ last' = Op("reload", currentState.state, currentState.params)
  /\ UNCHANGED <<states, leafStates, initCalled, initialized, emulate, notFound, currentPathQuery, poppedState,
                 hpos, lastParams, initOnce>>
  /\ Tally
  /\ Notify
  /\ UNCHANGED <<pure, engine>>

\* The handler without the check of lines 241-244.
OnPopStateUnguarded(j, origin, addr) ==
  LET newState == IF hist[j].state # NoPath THEN hist[j].state ELSE hist[j].url
  IN /\ poppedState' = TRUE
     /\ last' = Target("pop", newState)
     /\ SetStateForPathQuery(newState, TRUE, j, origin, addr)

\* window.onpopstate, lines 240-253, for the notification of entry j.
OnPopState(j, origin, addr) ==
  IF ignoreNextPopState
  THEN /\ ignoreNextPopState' = FALSE
       /\ last' = Op("ignored", NoState, UndefinedParams)
       /\ emitted' = <<>>
       /\ writes' = <<>>
       /\ raised' = NoError
       /\ UNCHANGED <<currentPathQuery, currentState, transition, poppedState,
                      firstTransition, hist, zombies, nTransitions, req>>
  ELSE LET newState == IF hist[j].state # NoPath THEN hist[j].state ELSE hist[j].url
       IN /\ poppedState' = TRUE
          /\ last' = Target("pop", newState)
          /\ SetStateForPathQuery(newState, TRUE, j, origin, addr)

\* The user goes back or forward to entry j: the browser makes it the current
\* entry and notifies the router.
UserPop(j) ==
  /\ initialized
  /\ ~selfPop
  /\ nTransitions < MaxTransitions
  /\ j \in DOMAIN hist
  /\ j # hpos
  /\ hpos' = j
  /\ OnPopState(j, "pop", Address)
  /\ UNCHANGED <<states, leafStates, initCalled, initialized, emulate, notFound, lastParams, initOnce>>
  /\ Tally
  /\ Notify
  /\ UNCHANGED <<pure, engine>>

\* The emulated history API notifies the router of the router's own write; the
\* notification follows the write before anything else runs.
SelfNotify ==
  /\ selfPop
  /\ IF initialized
     THEN OnPopState(hpos, "pop", Address)
     ELSE \* init() threw before line 240: no handler is installed
          /\ last' = Op("ignored", NoState, UndefinedParams)
          /\ emitted' = <<>>
          /\ writes' = <<>>
          /\ raised' = NoError
          /\ UNCHANGED <<ignoreNextPopState, currentPathQuery, currentState, transition,
                         poppedState, firstTransition, hist, zombies, nTransitions, req>>
  /\ UNCHANGED <<states, leafStates, hpos, initCalled, initialized, emulate, notFound, lastParams, initOnce>>
  /\ Tally
  /\ Notify
  /\ UNCHANGED <<pure, engine>>

\* The pending transition's steps finish.
Complete ==
  /\ transition # NoTransition
  /\ ~selfPop
  /\ Settle(transition, FALSE, TRUE)

Failure ==
  /\ transition # NoTransition
  /\ ~selfPop
  /\ Settle(transition, FALSE, FALSE)

\* The steps of a superseded transition finish.
Superseded(z, ok) ==
  /\ z \in zombies
  /\ ~selfPop
  /\ Settle(z, TRUE, ok)

\* addState(name, state), lines 365-377.
addState(name) ==
  /\ ~selfPop
  /\ IF initialized
     THEN raised' = "Error" /\ UNCHANGED states
     ELSE IF name \in states
          THEN raised' = "Error" /\ UNCHANGED states
          ELSE raised' = NoError /\ states' = states \cup {name}
  /\ last' = Op("addState", name, UndefinedParams)
  /\ emitted' = <<>>
  /\ writes' = <<>>
  /\ UNCHANGED <<leafStates, initCalled, initialized, emulate, notFound, firstTransition,
                 ignoreNextPopState, currentPathQuery, currentState, transition,
                 poppedState, lastParams, initOnce, hist, hpos, zombies,
                 nTransitions, req>>
  /\ Tally
  /\ Notify
  /\ UNCHANGED <<pure, engine>>

\* ------------------------------------------------------------------ specification
Entry(pq) == [state |-> pq, url |-> pq]

InitRouter ==
  /\ states = Leaves
  /\ leafStates = {}
  /\ initCalled = FALSE
  /\ initialized = FALSE
  /\ emulate \in BOOLEAN
  /\ notFound \in BOOLEAN
  /\ firstTransition = TRUE
  /\ ignoreNextPopState = FALSE
  /\ currentPathQuery = NoPath
  /\ currentState = UndefinedState
  /\ transition = NoTransition
  /\ poppedState = FALSE
  /\ lastParams = [l \in Leaves \cup Fresh \cup {NotFoundState} |-> UndefinedParams]
  /\ initOnce = TRUE
  /\ hist \in {<<[state |-> NoPath, url |-> <<"a", 1>>]>>,
               <<Entry(<<"b", 1>>), [state |-> NoPath, url |-> <<"a", 1>>]>>}
  /\ hpos = Len(hist)
  /\ selfPop = FALSE
  /\ zombies = {}
  /\ nTransitions = 0
  /\ outcomes = [t \in 1..MaxTransitions |-> 0]
  /\ nInitialized = 0
  /\ nCompleted = 0
  /\ entered = [l \in Leaves \cup Fresh \cup {NotFoundState} |-> UndefinedParams]
  /\ req = NoReq
  /\ emitted = <<>>
  /\ writes = <<>>
  /\ raised = NoError
  /\ last = Op("none", NoState, UndefinedParams)

\* No call of a function on its own.
NotCalled == [done |-> FALSE, threw |-> FALSE, names |-> {}]

\* paramDiff is not called on its own.
NoDiffCall ==
  /\ argOld = UndefinedParams
  /\ argNew = UndefinedParams
  /\ diff = NotCalled
  /\ swapped = NotCalled

\* No Transition is looked at step by step.
NoEngine ==
  /\ tFrom = NoState
  /\ tTo = NoState
  /\ tDiff = {}
  /\ tReload = FALSE
  /\ tLog = <<>>
  /\ tDone = 0
  /\ tRunning = FALSE
  /\ tCancel = FALSE
  /\ tOutcome = "none"

\* The router with any configuration.
InitConfigured == InitRouter /\ NoDiffCall /\ NoEngine

\* The router as configured by default: initOptions.notFound is not set
\* (lines 25-28).
Init == InitConfigured /\ ~notFound

Next ==
  \/ \E r \in Requests \cup {FromUrl} : init(r)
  \/ \E r \in Requests : Navigate(r)
  \/ \E l \in Leaves \cup Fresh, d \in [ParamNames -> Ids] : backTo(l, d)
  \/ Reload
  \/ \E j \in 1..MaxHist : UserPop(j)
  \/ SelfNotify
  \/ Complete
  \/ Failure
  \/ \E z \in zombies, ok \in BOOLEAN : Superseded(z, ok)

Spec == Init /\ [][Next]_vars

\* The hooks of the pending transition settle: its steps finish sooner or
\* later, with success or with an error; and the emulated history API
\* delivers the notification that is due.
NextLive ==
  \/ \E r \in Requests \cup {FromUrl} : init(r)
  \/ \E r \in Requests : nTransitions < MaxLive /\ Navigate(r)
  \/ \E l \in Leaves, d \in [ParamNames -> Ids] : nTransitions < MaxLive /\ backTo(l, d)
  \/ nTransitions < MaxLive /\ Reload
  \/ \E j \in 1..MaxHist : nTransitions < MaxLive /\ UserPop(j)
  \/ SelfNotify
  \/ Complete
  \/ Failure
  \/ \E z \in zombies, ok \in BOOLEAN : Superseded(z, ok)

SpecLive ==
  Init /\ [][NextLive]_vars /\ WF_vars(Complete \/ Failure) /\ WF_vars(SelfNotify)

\* The router of an application that may have configured a notFound state.
SpecConfigured == InitConfigured /\ [][Next]_vars

\* The router of an application that also registers root states with addState.
NextAdd ==
  \/ \E name \in Leaves \cup Fresh : addState(name)
  \/ Next

SpecAdd == Init /\ [][NextAdd]_vars

\* ------------------------------------------------------------------ paramDiff, called on its own
\* The names and the values of the mappings paramDiff is called with; a name
\* mapped to Undef is one the mapping does not carry.
DiffNames == {"a", "b"}
DiffValues == {1, 2, 3}
Mappings == [DiffNames -> DiffValues \cup {Undef}]
NoMapping == [n \in DiffNames |-> NoObj]

\* What a call paramDiff(o, n) gives its caller: the names of the object it
\* returns, or the TypeError it leaves with.
ParamDiffCall(o, n) ==
  IF paramDiffThrows(o, n) THEN [done |-> TRUE, threw |-> TRUE, names |-> {}]
  ELSE [done |-> TRUE, threw |-> FALSE, names |-> paramDiff(o, n)]

\* paramDiff(old, new)
Diff ==
  /\ ~diff.done
  /\ diff' = ParamDiffCall(argOld, argNew)
  /\ UNCHANGED <<router, engine, argOld, argNew, swapped>>

\* paramDiff(new, old)
DiffSwapped ==
  /\ ~swapped.done
  /\ swapped' = ParamDiffCall(argNew, argOld)
  /\ UNCHANGED <<router, engine, argOld, argNew, diff>>

\* The old mapping may be absent (line 185); the new one is a mapping.
InitDiff ==
  /\ InitRouter
  /\ ~emulate
  /\ ~notFound
  /\ Len(hist) = 1
  /\ argOld \in Mappings \cup {NoMapping}
  /\ argNew \in Mappings
  /\ diff = NotCalled
  /\ swapped = NotCalled
  /\ NoEngine

NextDiff == Diff \/ DiffSwapped

SpecDiff == InitDiff /\ [][NextDiff]_vars

\* ------------------------------------------------------------------ Transition(from, to, diff, reload)
\* A state tree: app (query parameter lang) with the children list (path
\* parameter cat) and home; list with the children item (path parameter id)
\* and new; and the root leaf login.
TreeStates == {"app", "list", "item", "new", "home", "login"}
TreeLeaves == {"item", "new", "home", "login"}
TreeParams == {"lang", "cat", "id"}

\* state.parents, root first.
Parents(st) ==
  CASE st = "list" -> <<"app">>
    [] st = "home" -> <<"app">>
    [] st = "item" -> <<"app", "list">>
    [] st = "new" -> <<"app", "list">>
    [] OTHER -> <<>>

PathParams(st) ==
  CASE st = "list" -> {"cat"}
    [] st = "item" -> {"id"}
    [] OTHER -> {}

QueryParams(st) == IF st = "app" THEN {"lang"} ELSE {}

Ancestors(st) == {Parents(st)[i] : i \in DOMAIN Parents(st)}

\* The parameters a state is diffed on: its own, and the query parameters it
\* inherits from its ancestors.
Relevant(st) ==
  PathParams(st) \cup QueryParams(st) \cup UNION {QueryParams(p) : p \in Ancestors(st)}

\* The longest common ancestor sequence of two states.
SharedPrefix(a, b) ==
  LET pa == Parents(a)
      pb == Parents(b)
      n == CHOOSE k \in 0..Len(pa) :
             /\ k <= Len(pb)
             /\ \A i \in 1..k : pa[i] = pb[i]
             /\ \A m \in (k + 1)..Len(pa) :
                  m > Len(pb) \/ \E i \in 1..m : pa[i] # pb[i]
  IN SubSeq(pa, 1, n)

Reverse(q) == [i \in 1..Len(q) |-> q[Len(q) + 1 - i]]

Keep(q, set) == SelectSeq(q, LAMBDA x : x \in set)

\* The shared ancestors that are in both chains all the same.
Redone(a, b, changed, reload) ==
  {p \in Ancestors(a) \cap Ancestors(b) : reload \/ Relevant(p) \cap changed # {}}

\* Every ancestor of the source exited, shared or not.
ExitChainNaive(a, b, changed, reload) == <<a>> \o Reverse(Parents(a))

\* The exit chain, deepest first.
ExitChain(a, b, changed, reload) ==
  LET shared == SharedPrefix(a, b)
      below == SubSeq(Parents(a), Len(shared) + 1, Len(Parents(a)))
  IN <<a>> \o Reverse(below) \o Reverse(Keep(shared, Redone(a, b, changed, reload)))

\* The enter chain, shallowest first.
EnterChain(a, b, changed, reload) ==
  LET shared == SharedPrefix(a, b)
      below == SubSeq(Parents(b), Len(shared) + 1, Len(Parents(b)))
  IN Keep(shared, Redone(a, b, changed, reload)) \o below \o <<b>>

Step(kind, st) == [kind |-> kind, state |-> st]

\* The steps of the transition, in the order they are run.
Plan ==
  LET ex == ExitChain(tFrom, tTo, tDiff, tReload)
      en == EnterChain(tFrom, tTo, tDiff, tReload)
  IN [i \in 1..Len(ex) |-> Step("exit", ex[i])] \o [i \in 1..Len(en) |-> Step("enter", en[i])]

Mark(ev, step) == [ev |-> ev, kind |-> step.kind, state |-> step.state]

\* The next step is begun: none is running, and cancel() has not been called.
BeginStep ==
  /\ tOutcome = "pending"
  /\ ~tRunning
  /\ ~tCancel
  /\ tDone < Len(Plan)
  /\ tRunning' = TRUE
  /\ tLog' = Append(tLog, Mark("begin", Plan[tDone + 1]))
  /\ UNCHANGED <<router, pure, tFrom, tTo, tDiff, tReload, tDone, tCancel, tOutcome>>

\* The hook of the running step settles, with an error or not.
EndStep(ok) ==
  /\ tRunning
  /\ tRunning' = FALSE
  /\ tDone' = tDone + 1
  /\ tLog' = Append(tLog, Mark("end", Plan[tDone + 1]))
  /\ tOutcome' = IF tCancel THEN "cancelled"
                 ELSE IF ~ok THEN "failed"
                 ELSE IF tDone + 1 = Len(Plan) THEN "completed"
                 ELSE "pending"
  /\ UNCHANGED <<router, pure, tFrom, tTo, tDiff, tReload, tCancel>>

\* cancel(): no further step is begun; the running one runs to its end.
Cancel ==
  /\ tOutcome = "pending"
  /\ ~tCancel
  /\ tCancel' = TRUE
  /\ tOutcome' = IF tRunning THEN "pending" ELSE "cancelled"
  /\ UNCHANGED <<router, pure, tFrom, tTo, tDiff, tReload, tLog, tDone, tRunning>>

InitEngine ==
  /\ InitRouter
  /\ ~emulate
  /\ ~notFound
  /\ Len(hist) = 1
  /\ NoDiffCall
  /\ tFrom \in TreeLeaves
  /\ tTo \in TreeLeaves
  /\ tDiff \in SUBSET TreeParams
  /\ tReload \in BOOLEAN
  /\ tLog = <<>>
  /\ tDone = 0
  /\ tRunning = FALSE
  /\ tCancel = FALSE
  /\ tOutcome = "pending"

NextEngine ==
  \/ BeginStep
  \/ \E ok \in BOOLEAN : EndStep(ok)
  \/ Cancel

SpecEngine == InitEngine /\ [][NextEngine]_vars

\* ------------------------------------------------------------------ claims
\* The step is a navigation request (programmatic or popped) that resolved to
\* a leaf and differs from the target of the pending transition.
SupersedingRequest ==
  /\ transition # NoTransition
  /\ last'.op \in {"state", "pop"}
  /\ last'.state # NoState
  /\ ~(last'.state = transition.to.state /\ last'.params = transition.to.params)

\* C1: a request for a target C, not a no-op, that arrives while a transition
\* A->B is pending cancels that transition, dispatches transition.cancelled
\* with (to = B, from = A), and then starts a transition whose source is B with
\* B's parameters, not A.
C1_SupersedeFromStaleTarget ==
  [][SupersedingRequest =>
       /\ Len(emitted') = 3
       /\ emitted'[1] = Event("cancelled", StateOnly(transition.to.state),
                              StateOnly(transition.from.state), transition.tid)
       /\ emitted'[3].type = "started"
       /\ emitted'[3].to.state = last'.state
       /\ emitted'[3].to.params = last'.params
       /\ emitted'[3].from.state = transition.to.state
       /\ emitted'[3].from.params = transition.to.params
       /\ transition' # NoTransition
       /\ transition'.tid = emitted'[3].tid
       /\ transition'.tid # transition.tid
       /\ transition'.from = emitted'[3].from
       /\ transition'.to = emitted'[3].to
       /\ transition \in zombies']_vars

\* A request superseded a transition A->B with A and B different leaves with
\* different parameters.
C1_Witness ==
  /\ last.op \in {"state", "pop"}
  /\ Len(emitted) = 3
  /\ emitted[1].type = "cancelled"
  /\ emitted[1].from.state \in Leaves
  /\ emitted[1].from.state # emitted[1].to.state
  /\ emitted[3].from.state = emitted[1].to.state
  /\ \E z \in zombies : z.tid = emitted[1].tid /\ z.from.params # z.to.params

\* The transitions started for which no outcome has been dispatched.
Pending == {t \in 1..nTransitions : outcomes[t] = 0}

\* C2: at most one transition is pending (started, with no completed, failed
\* or cancelled dispatched for it), it is the one the router holds, and when
\* a step starts a transition while another is pending the cancellation of
\* the earlier one is dispatched before the start of the new one.
C2_AtMostOnePending ==
  /\ Cardinality(Pending) <= 1
  /\ Pending = (IF transition = NoTransition THEN {} ELSE {transition.tid})
  /\ \A i, j \in DOMAIN emitted :
       (emitted[i].type = "started" /\ emitted[j].type = "cancelled")
         => (j < i /\ emitted[j].tid < emitted[i].tid)

\* A second transition was started while the first was pending.
C2_Witness ==
  /\ nTransitions >= 2
  /\ transition # NoTransition
  /\ \E i, j \in DOMAIN emitted :
       emitted[i].type = "started" /\ emitted[j].type = "cancelled"

\* C3: while a transition is pending, currentState() is the transition's
\* target state with the target's parameters.
C3_OptimisticCurrentState ==
  transition # NoTransition =>
    /\ currentState.state = transition.to.state
    /\ currentState.params = transition.to.params

\* A transition is pending whose source is another leaf than its target.
C3_Witness ==
  /\ transition # NoTransition
  /\ transition.from.state \in Leaves
  /\ transition.from.state # transition.to.state

\* The pending transition fails in this step.
FailStep == transition # NoTransition /\ last'.op = "fail"

\* The pending transition succeeds in this step.
CompleteStep == transition # NoTransition /\ last'.op = "complete"

\* C4 (as claimed): when a transition fails, currentState() is again the value
\* it was before the transition was requested, and the address is the one
\* from before the failed attempt, also when the failing transition had
\* superseded a pending one.
C4_FailRestoresAsClaimed ==
  [][FailStep =>
       /\ currentState' = req.prev
       /\ Address' = Address
       /\ (req.origin = "pop" => Address' = req.addr)]_vars

\* The step is a request that resolved to the target of the pending transition
\* or, with none pending, to the current state and parameters.
NoopRequest ==
  /\ last'.op \in {"state", "pop"}
  /\ last'.state # NoState
  /\ IF transition # NoTransition
     THEN last'.state = transition.to.state /\ last'.params = transition.to.params
     ELSE last'.state = currentState.state /\ last'.params = currentState.params

\* C5: a non-reload request whose resolved state and parameters equal the
\* pending transition's target, or else the current state and parameters, is
\* ignored: no transition is created, no event is dispatched, history is not
\* written and currentState() is unchanged; reload() of the same state and
\* parameters always creates a transition.
C5_NoopIgnoredUnlessReload ==
  [][/\ NoopRequest =>
          /\ emitted' = <<>>
          /\ writes' = <<>>
          /\ hist' = hist
          /\ transition' = transition
          /\ zombies' = zombies
          /\ nTransitions' = nTransitions
          /\ currentState' = currentState
     /\ last'.op = "reload" =>
          /\ last'.state = currentState.state
          /\ last'.params = currentState.params
          /\ nTransitions' = nTransitions + 1
          /\ transition'.tid = nTransitions'
          /\ transition'.reload
          /\ transition'.to.state = currentState.state
          /\ transition'.to.params = currentState.params
          /\ \E i \in DOMAIN emitted' :
               emitted'[i].type = "started" /\ emitted'[i].tid = nTransitions']_vars

\* A request for the target of the pending transition has just been ignored;
\* the pending transition is a reload that superseded a transition to the
\* same state and parameters.
C5_Witness ==
  /\ last.op \in {"state", "pop"}
  /\ emitted = <<>>
  /\ transition # NoTransition
  /\ transition.reload
  /\ last.state = transition.to.state
  /\ last.params = transition.to.params
  /\ \E z \in zombies : z.to.state = transition.to.state /\ z.to.params = transition.to.params

\* C6: every transition started has had at most one of completed, failed and
\* cancelled dispatched for it, exactly one unless it is the pending one, and
\* every such outcome event is followed, before any other outcome event, by
\* transition.ended with the same arguments for the same transition.
C6_OneOutcomeThenEnded ==
  /\ \A t \in 1..nTransitions :
       outcomes[t] = (IF transition # NoTransition /\ transition.tid = t THEN 0 ELSE 1)
  /\ \A t \in (nTransitions + 1)..MaxTransitions : outcomes[t] = 0
  /\ \A i \in DOMAIN emitted :
       /\ emitted[i].type \in Outcomes =>
            \E j \in DOMAIN emitted :
              /\ j > i
              /\ emitted[j].type = "ended"
              /\ emitted[j].tid = emitted[i].tid
              /\ emitted[j].to = emitted[i].to
              /\ emitted[j].from = emitted[i].from
              /\ \A k \in (i + 1)..(j - 1) : emitted[k].type = "initialized"
       /\ emitted[i].type = "ended" =>
            \E j \in DOMAIN emitted :
              j < i /\ emitted[j].type \in Outcomes /\ emitted[j].tid = emitted[i].tid
       /\ emitted[i].type = "started" =>
            emitted[i].tid = nTransitions /\ transition.tid = nTransitions

\* All three outcomes have been dispatched, the last one a failure.
C6_Witness ==
  /\ nTransitions = 3
  /\ transition = NoTransition
  /\ nCompleted = 1
  /\ zombies # {}
  /\ Len(emitted) = 2
  /\ emitted[1].type = "failed"

\* C7 (as claimed): a succeeding transition pushes a history entry carrying
\* the target's literal location exactly when its request was programmatic,
\* it is not the router's first transition and it is not a reload.
C7_PushIffAsClaimed ==
  [][CompleteStep =>
       /\ (\E i \in DOMAIN writes' : writes'[i].op = "push")
            <=> (req.origin = "prog" /\ transition.tid # 1 /\ ~transition.reload)
       /\ \A i \in DOMAIN writes' :
            writes'[i].op = "push" => writes'[i].url = transition.to.pathQuery]_vars

\* The literal location of a state with its parameters.
Location(swp) == Interpolate(swp.state, swp.params)

\* C8 (as claimed): a request from a history pop that creates a transition
\* first replaces the address by the literal location of the source state;
\* on success the address becomes the target's literal location, on failure
\* it stays at the source state's location; a transition pending when the pop
\* arrived changes none of this.
C8_PopAddressAsClaimed ==
  [][/\ (last'.op = "pop" /\ nTransitions' # nTransitions)
          => Address' = Location(transition'.from)
     /\ (CompleteStep /\ req.origin = "pop") => Address' = Location(transition.to)
     /\ (FailStep /\ req.origin = "pop") => Address' = Location(transition.from)]_vars

\* C9: a cancelled transition reports neither success nor failure: when its
\* steps finish nothing is dispatched, history is not written, the pending
\* transition stays and currentState() is unchanged; completed and failed are
\* only ever dispatched for the transition that is pending.
C9_CancelledNeverReports ==
  [][/\ \A z \in zombies :
          z \notin zombies' =>
            /\ emitted' = <<>>
            /\ writes' = <<>>
            /\ hist' = hist
            /\ transition' = transition
            /\ currentState' = currentState
     /\ \A i \in DOMAIN emitted' :
          emitted'[i].type \in {"completed", "failed"} =>
            /\ emitted'[i].tid = transition.tid
            /\ emitted'[i].tid \notin {z.tid : z \in zombies}]_vars

\* The steps of a cancelled transition finished while its successor is pending.
C9_Witness ==
  /\ last.op = "superseded"
  /\ transition # NoTransition
  /\ outcomes[transition.tid - 1] = 1

\* C10: router.initialized is dispatched at most once, on the first
\* transition.completed and not before a transition has completed.
C10_InitializedOnce ==
  /\ nInitialized <= 1
  /\ (nInitialized = 1) <=> (nCompleted >= 1)
  /\ \A i \in DOMAIN emitted :
       emitted[i].type = "initialized" =>
         i > 1 /\ emitted[i - 1].type = "completed" /\ nCompleted = 1

\* A second transition completed, after the first transition of the router
\* did not complete.
C10_Witness ==
  /\ nCompleted = 2
  /\ nTransitions = 3
  /\ nInitialized = 1

\* The step is a request whose name or location no leaf state matches.
UnmatchedRequest == last'.op \in {"state", "pop"} /\ last'.state = NoState

\* The fallback state is the target already: the pending transition's, or
\* with none pending the current state.
FallbackIsTarget ==
  IF transition # NoTransition THEN transition.to.state = NotFoundState
  ELSE currentState.state = NotFoundState

\* C11 (as claimed): a request that matches no leaf state starts a transition
\* to the notFound state when one is configured, whatever the current state
\* and its parameters are (unless the fallback is the target already); with
\* none configured an Error is raised, no transition is created, no event is
\* dispatched and currentState() is unchanged.
C11_NotFoundAsClaimed ==
  [][UnmatchedRequest =>
       IF notFound
       THEN ~FallbackIsTarget =>
              /\ raised' = NoError
              /\ nTransitions' = nTransitions + 1
              /\ transition'.tid = nTransitions'
              /\ transition'.to.state = NotFoundState
              /\ currentState'.state = NotFoundState
              /\ \E i \in DOMAIN emitted' :
                   emitted'[i].type = "started" /\ emitted'[i].to.state = NotFoundState
       ELSE /\ raised' = "Error"
            /\ nTransitions' = nTransitions
            /\ transition' = transition
            /\ emitted' = <<>>
            /\ currentState' = currentState]_vars

\* C12 (as claimed): addState fails with an Error, leaving the registered
\* states as they were, once init() has been called or when the name is that
\* of a registered root state; before init() a name not yet registered is
\* registered.
C12_AddStateAsClaimed ==
  [][last'.op = "addState" =>
       IF initCalled \/ last'.state \in states
       THEN raised' = "Error" /\ states' = states
       ELSE raised' = NoError /\ states' = states \cup {last'.state}]_vars

\* The names a mapping carries, and its value for a name it carries.
Carried(m) == IF Absent(m) THEN {} ELSE {n \in DOMAIN m : m[n] # Undef}

\* The names in exactly one of the two mappings, or in both with different values.
Changed(o, n) ==
  {x \in DiffNames :
     \/ (x \in Carried(o)) # (x \in Carried(n))
     \/ x \in Carried(o) /\ x \in Carried(n) /\ o[x] # n[x]}

\* The two mappings carry the same names with the same values.
SameMapping(o, n) ==
  Carried(o) = Carried(n) /\ \A x \in Carried(o) : o[x] = n[x]

\* C13 (as claimed): paramDiff(old, new) returns the names in exactly one of
\* the mappings or in both with different values - {b} for {a:1,b:2} and
\* {a:1,b:3}, {a} for {} and {a:1}, {} for {a:1} and {a:1} -, nothing exactly
\* when the mappings are equal, and paramDiff(new, old) returns the same,
\* also when the old mapping is absent.
C13_ParamDiffAsClaimed ==
  /\ diff.done =>
       /\ ~diff.threw
       /\ diff.names = Changed(argOld, argNew)
       /\ (diff.names = {}) <=> SameMapping(argOld, argNew)
       /\ (argOld = [a |-> 1, b |-> 2] /\ argNew = [a |-> 1, b |-> 3]) => diff.names = {"b"}
       /\ (argOld = [a |-> Undef, b |-> Undef] /\ argNew = [a |-> 1, b |-> Undef])
            => diff.names = {"a"}
       /\ (argOld = [a |-> 1, b |-> Undef] /\ argNew = argOld) => diff.names = {}
  /\ (diff.done /\ swapped.done) => swapped = diff
  /\ swapped.done => ~swapped.threw

\* C14: backTo(name, defaultParams) requests the leaf with the parameters of
\* the most recent transition.completed whose target it was, and with
\* defaultParams when there has been none; only a step that dispatches
\* transition.completed changes the cached parameters of a state, to the
\* parameters of the completed target.
C14_BackToLastCompleted ==
  [][/\ last'.call.via = "backTo" =>
          LET params == IF entered[last'.state] # UndefinedParams
                        THEN entered[last'.state]
                        ELSE last'.call.defaultParams
          IN /\ last'.params = params
             /\ currentPathQuery' = Interpolate(last'.state, params)
             /\ nTransitions' # nTransitions =>
                  /\ transition'.to.state = last'.state
                  /\ transition'.to.params = params
     /\ \A l \in DOMAIN lastParams :
          IF \E i \in DOMAIN emitted' :
               emitted'[i].type = "completed" /\ emitted'[i].to.state = l
          THEN \E i \in DOMAIN emitted' :
                 /\ emitted'[i].type = "completed"
                 /\ emitted'[i].to.state = l
                 /\ lastParams'[l] = emitted'[i].to.params
          ELSE lastParams'[l] = lastParams[l]]_vars

\* backTo has just cancelled a pending transition to the same leaf with the
\* default parameters, and requested the parameters the leaf was entered with.
C14_Witness ==
  /\ last.call.via = "backTo"
  /\ last.params # last.call.defaultParams
  /\ entered[last.state] = last.params
  /\ transition # NoTransition
  /\ transition.to.params = last.params
  /\ \E z \in zombies :
       z.to.state = last.state /\ z.to.params = last.call.defaultParams

\* The states a kind of step was begun for, and the depth of a state.
Begun(kind) ==
  {tLog[i].state : i \in {j \in DOMAIN tLog : tLog[j].ev = "begin" /\ tLog[j].kind = kind}}

Depth(st) == Len(Parents(st))

\* The ancestors the two leaves share.
S == Ancestors(tFrom) \cap Ancestors(tTo)

\* Steps run one at a time, exits deepest first then enters shallowest first,
\* no state twice in a chain, no enter step begun before every exit step ended.
InOrder ==
  /\ \A i \in DOMAIN tLog :
       IF i % 2 = 1 THEN tLog[i].ev = "begin"
       ELSE tLog[i] = [tLog[i - 1] EXCEPT !.ev = "end"]
  /\ \A i, j \in DOMAIN tLog :
       (i < j /\ tLog[i].ev = "begin" /\ tLog[j].ev = "begin") =>
         /\ tLog[i].kind = "enter" => tLog[j].kind = "enter"
         /\ (tLog[i].kind = "exit" /\ tLog[j].kind = "exit")
              => Depth(tLog[i].state) > Depth(tLog[j].state)
         /\ (tLog[i].kind = "enter" /\ tLog[j].kind = "enter")
              => Depth(tLog[i].state) < Depth(tLog[j].state)
  /\ tOutcome = "completed" => ~tRunning /\ Len(tLog) % 2 = 0

\* C15 (as claimed): a non-reload transition from leaf A to leaf B that
\* completes has run exit steps for exactly A and A's ancestors not in S, and
\* enter steps for exactly B and B's ancestors not in S, in order.
C15_ChainsAsClaimed ==
  /\ InOrder
  /\ (tOutcome = "completed" /\ ~tReload) =>
       /\ Begun("exit") = {tFrom} \cup (Ancestors(tFrom) \ S)
       /\ Begun("enter") = {tTo} \cup (Ancestors(tTo) \ S)

\* C15 (amended): a non-reload transition from leaf A to leaf B that completes
\* has run exit steps for exactly A, A's ancestors not in S and the ancestors
\* in S one of whose relevant parameters changed, deepest first, and enter
\* steps for exactly B, B's ancestors not in S and those same ancestors in S,
\* shallowest first; steps run one at a time and no enter step begins before
\* every exit step has ended; an ancestor in S whose relevant parameters are
\* unchanged runs no step, at any time.
C15_ChainsWithChangedShared ==
  /\ InOrder
  /\ ~tReload =>
       \A p \in S : Relevant(p) \cap tDiff = {} => p \notin Begun("exit") \cup Begun("enter")
  /\ (tOutcome = "completed" /\ ~tReload) =>
       /\ Begun("exit") = {tFrom} \cup (Ancestors(tFrom) \ S)
                             \cup {p \in S : Relevant(p) \cap tDiff # {}}
       /\ Begun("enter") = {tTo} \cup (Ancestors(tTo) \ S)
                              \cup {p \in S : Relevant(p) \cap tDiff # {}}

\* A transition between two leaves under list completed: list, whose path
\* parameter changed, was exited and entered; app, unchanged, was not.
C15_Witness ==
  /\ tOutcome = "completed"
  /\ ~tReload
  /\ tFrom = "item"
  /\ tTo = "new"
  /\ tDiff = {"cat", "id"}
  /\ Begun("exit") = {"item", "list"}
  /\ Begun("enter") = {"list", "new"}

\* The step is the popstate handler answering a notification.
Notification == last'.op \in {"pop", "ignored"} /\ initialized

\* C16: under an emulated history API a write of the router leaves the flag
\* set for the notification it provokes, that notification is the next thing
\* the router sees and is not processed as a navigation; a notification that
\* arrives while the flag is set clears the flag and does nothing else: no
\* transition, no event, no write, no change of the current state, of the
\* pending transition, of poppedState or of currentPathQuery; with the flag
\* clear again the next notification is processed.
C16_OwnNotificationSuppressed ==
  [][/\ selfPop' => (emulate /\ ignoreNextPopState')
     /\ (selfPop /\ initialized) => (Notification /\ last'.op = "ignored")
     /\ (Notification /\ ignoreNextPopState) =>
          /\ last'.op = "ignored"
          /\ ~ignoreNextPopState'
          /\ emitted' = <<>>
          /\ writes' = <<>>
          /\ UNCHANGED <<currentState, transition, currentPathQuery, poppedState,
                         firstTransition, hist, hpos, zombies, nTransitions,
                         lastParams, req>>
     /\ (Notification /\ ~ignoreNextPopState) => (last'.op = "pop" /\ poppedState')]_vars

\* The notification of the replaceState of line 70 has just been ignored: the
\* transition the pop started is pending.
C16_Witness ==
  /\ emulate
  /\ initialized
  /\ last.op = "ignored"
  /\ ~ignoreNextPopState
  /\ ~selfPop
  /\ transition # NoTransition
  /\ req.origin = "pop"
  /\ poppedState

\* C17: when the hooks of the pending transition settle, every transition
\* started has an outcome dispatched in the end (transition.ended follows it,
\* C6) and the router is without a pending transition again, whether the
\* transitions succeed or fail.
C17_EveryTransitionEnds ==
  /\ \A k \in 1..MaxLive : (nTransitions >= k) ~> (outcomes[k] = 1)
  /\ (transition # NoTransition) ~> (transition = NoTransition)

\* The first transition failed, leaving no current state; the request made
\* after it was accepted and its transition has just completed.
C17_Witness ==
  /\ last.op = "complete"
  /\ nTransitions = 2
  /\ nCompleted = 1
  /\ transition = NoTransition
  /\ Len(emitted) = 3
  /\ emitted[1].type = "completed"
  /\ emitted[1].tid = 2
  /\ emitted[1].from.state = NoState
  /\ emitted[3].type = "ended"

\* C18 (as claimed): the location currentState() carries is the literal
\* location its state and parameters were resolved from, never absent and
\* never the location of another request.
C18_LocationAsClaimed ==
  currentState.state \in Leaves => currentState.pathQuery = Location(currentState)

\* The router is Idle, and the transition settled last completed and was not
\* the first one the router created.
IdleAfterLaterCompletion ==
  /\ transition = NoTransition
  /\ last.op = "complete"
  /\ \E i \in DOMAIN emitted : emitted[i].type = "completed" /\ emitted[i].tid # 1

\* C19 (as claimed): whenever the router is Idle and the transition settled
\* last completed and was not the router's first, the address is the literal
\* location of currentState().
C19_AddressAsClaimed ==
  IdleAfterLaterCompletion => Address = Location(currentState)

\* C20 (as claimed): what a succeeding transition writes to the history is
\* decided by the origin of the request that created it alone: created by a
\* history pop it only replaces the current entry, created by a programmatic
\* request it only pushes, whatever requests were ignored while it was pending.
C20_WriteByOriginAsClaimed ==
  [][CompleteStep =>
       /\ req.origin = "pop" => \A i \in DOMAIN writes' : writes'[i].op = "replace"
       /\ req.origin = "prog" => \A i \in DOMAIN writes' : writes'[i].op = "push"]_vars


====
